---------------------------- MODULE Spec2Model ----------------------------
(***************************************************************************)
(* Model of AstroTuxLauncher.py: the launcher's main script, the           *)
(* AstroTuxLauncher class (construction, version gate, start sequence,     *)
(* exit logic, SIGINT handler) and the collaborators it drives (the        *)
(* dedicated server handle, the status updater thread, the input thread).  *)
(***************************************************************************)
EXTENDS Integers, Sequences, FiniteSets, TLC

(***************************************************************************)
(* Bounds of the model.                                                    *)
(***************************************************************************)
\* longest version string, counted in dot-separated fields
MaxVerLen == 2
\* largest number in a version field
MaxField == 1
\* SIGINT signals delivered in one run
MaxSignals == 2
\* console lines read by the input thread in one run
MaxInputs == 2
MaxCalls == 4
MaxPushes == 3
MaxWhitelistLen == 2
MaxEvents == 2

(***************************************************************************)
(* Version strings.  A version string is the sequence of its              *)
(* dot-separated fields; a field that is not a number is written -1.       *)
(* read_build_version returns None when no version is recorded: <<>>.      *)
(***************************************************************************)
NoVersion == <<>>

VersionStrings ==
    UNION { [1..n -> (-1)..MaxField] : n \in 1..MaxVerLen }

\* packaging.version.parse raises InvalidVersion on a non-numeric field
Parses(s) == Len(s) > 0 /\ \A i \in 1..Len(s) : s[i] >= 0

\* packaging's comparison key of a release: trailing zero fields are dropped
RECURSIVE StripZeros(_)
StripZeros(s) ==
    IF Len(s) > 0 /\ s[Len(s)] = 0
    THEN StripZeros(SubSeq(s, 1, Len(s) - 1))
    ELSE s

\* Python's tuple comparison a > b: the first differing position decides,
\* and a proper extension is greater than its prefix
RECURSIVE TupleGreater(_, _)
TupleGreater(a, b) ==
    IF Len(a) = 0 THEN FALSE
    ELSE IF Len(b) = 0 THEN TRUE
    ELSE IF Head(a) # Head(b) THEN Head(a) > Head(b)
    ELSE TupleGreater(Tail(a), Tail(b))

VersionGreaterOrEqual(new, old) ==
    ~ TupleGreater(StripZeros(old), StripZeros(new))

\* version.parse(newversion) > version.parse(oldversion)
VersionGreater(new, old) ==
    TupleGreater(StripZeros(new), StripZeros(old))

DoUpdateNoFailOpen(oldversion, exe, fetched, newversion) ==
    IF oldversion = NoVersion \/ ~ exe
    THEN TRUE
    ELSE /\ fetched /\ Parses(newversion) /\ Parses(oldversion)
         /\ VersionGreater(newversion, oldversion)

\* check_server_update: the value of do_update when the decision is taken.
\* fetched: get_request and json.load succeeded and the field is present.
DoUpdate(oldversion, exe, fetched, newversion) ==
    IF oldversion = NoVersion \/ ~ exe
    THEN TRUE
    ELSE IF ~ fetched \/ ~ Parses(newversion) \/ ~ Parses(oldversion)
    THEN TRUE
    ELSE VersionGreater(newversion, oldversion)

\* check_server_update: the value of installed when the decision is taken
Installed(oldversion, exe) == ~ (oldversion = NoVersion \/ ~ exe)

RunToolWhenForced(do_upd, auto, force) == force \/ (do_upd /\ auto)

\* check_server_update: whether update_server is called
RunTool(do_upd, auto, force) == do_upd /\ (auto \/ force)


(***************************************************************************)
(* State.                                                                  *)
(***************************************************************************)
VARIABLES
    command,            \* args.command: the CLI action
    AutoUpdateServer,   \* config.AutoUpdateServer
    CheckNetwork,       \* config.CheckNetwork
    SendStatus,         \* config.status.SendStatus
    oldversion,         \* what read_build_version finds in the installation
    exeExists,          \* check_ds_executable()
    fetched,            \* the stats endpoint answers with a latestVersion field
    latestVersion,      \* data["stats"]["latestVersion"]
    do_update,          \* check_server_update's do_update
    gateDone,           \* check_server_update has taken its decision
    pc,                 \* position of the main thread
    term,               \* how the process has ended, "running" while it has not
    dedicatedserver,    \* self.dedicatedserver is set
    status_thread,      \* self.status_thread is set
    status,             \* dedicatedserver.status
    rconConnected,      \* dedicatedserver.rcon.connected
    procAlive,          \* the child process exists and has not ended
    handlerInstalled,   \* signal.signal(SIGINT, launcher.user_exit) was executed
    sigCount,           \* SIGINT signals delivered so far
    gracefulCalls,      \* calls of exit(graceful=True) so far
    inputStarted,       \* input_thread.start() was executed
    reporterStarted,    \* status_thread.start() was executed
    statusState,        \* the state retained by the status updater thread
    failures,           \* steps of the start sequence that have failed
    log,                \* calls made on the collaborators, in order
    inputLines,         \* the console lines on_input was called with, in order
    cmd_queue,          \* self.cmd_queue
    delivered,          \* the commands the run loop has taken from cmd_queue
    queuedAtLoopEntry,  \* length of cmd_queue when server_loop was entered
    netLocal,           \* net_test_local answers True for the server port
    netNonLocal,        \* net_test_nonlocal answers True for the server port
    rconExposed,        \* net_test_local answers True for the console port
    pushes,             \* the states the status updater thread has sent
    notifications,      \* config.notifications: method, destinations, EventWhitelist
    handlers,           \* the handlers added to self.notifications
    warnings,           \* the warnings logged by the constructor
    notified            \* the calls of notifications.notify so far

vars == << command, AutoUpdateServer, CheckNetwork, SendStatus, oldversion,
           exeExists, fetched, latestVersion, do_update, gateDone, pc, term,
           dedicatedserver, status_thread, status, rconConnected, procAlive,
           handlerInstalled, sigCount, gracefulCalls, inputStarted,
           reporterStarted, statusState, failures, log, inputLines,
           cmd_queue, delivered, queuedAtLoopEntry, netLocal, netNonLocal,
           rconExposed, pushes, notifications, handlers, warnings,
           notified >>

cliVars == << command, AutoUpdateServer, CheckNetwork, SendStatus >>
envVars == << oldversion, exeExists, fetched, latestVersion >>
gateVars == << do_update, gateDone >>
childVars == << status, rconConnected, procAlive >>
handleVars == << dedicatedserver, status_thread >>
sigVars == << sigCount, gracefulCalls >>
workerVars == << inputStarted, reporterStarted >>
channelVars == << inputLines, cmd_queue, delivered, queuedAtLoopEntry >>
netVars == << netLocal, netNonLocal, rconExposed >>
reportVars == << statusState, pushes >>
notifVars == << notifications, handlers, warnings, notified >>

\* class LauncherCommand
LauncherCommand == { "start", "install", "update", "genconfig" }

\* the members of ServerStatus the launcher tests for, and the resting one
ServerStatus == { "STOPPED", "STARTING", "RUNNING" }

InLog(e) == \E i \in 1..Len(log) : log[i] = e

\* position of the first occurrence of e in the log, 0 when there is none
Pos(e) ==
    IF InLog(e)
    THEN CHOOSE i \in 1..Len(log) : log[i] = e /\ \A j \in 1..(i-1) : log[j] # e
    ELSE 0

Count(e) == Cardinality({ i \in 1..Len(log) : log[i] = e })

\* a blocking subprocess call of the start sequence is in flight
InFlight == pc \in { "update_tool", "wine_wait" }

(***************************************************************************)
(* Initial states: the script has been started with some CLI action, some  *)
(* configuration file and some installation on disk.                       *)
(***************************************************************************)
ProgramStart ==
    /\ AutoUpdateServer \in BOOLEAN
    /\ do_update = FALSE
    /\ gateDone = FALSE
    /\ term = "running"
    /\ dedicatedserver = FALSE
    /\ status_thread = FALSE
    /\ status = "STOPPED"
    /\ rconConnected = FALSE
    /\ procAlive = FALSE
    /\ handlerInstalled = FALSE
    /\ sigCount = 0
    /\ gracefulCalls = 0
    /\ inputStarted = FALSE
    /\ reporterStarted = FALSE
    /\ statusState = "offline"
    /\ pushes = << >>
    /\ handlers = {}
    /\ warnings = << >>
    /\ notified = << >>
    /\ failures = {}
    /\ log = << >>
    /\ inputLines = << >>
    /\ cmd_queue = << >>
    /\ delivered = << >>
    /\ queuedAtLoopEntry = 0

\* the installations and endpoint answers the launcher is run against
Installations ==
    { [old |-> NoVersion, exe |-> FALSE, ok |-> TRUE,  new |-> <<1, 1>>],
      [old |-> <<1, 0>>,  exe |-> TRUE,  ok |-> TRUE,  new |-> <<1, 1>>],
      [old |-> <<1, 1>>,  exe |-> TRUE,  ok |-> TRUE,  new |-> <<1, 1>>],
      [old |-> <<1, 1>>,  exe |-> TRUE,  ok |-> FALSE, new |-> <<0>>] }

\* interface.EventType, three of its members
EventType == { "START", "SHUTDOWN", "PLAYER_JOIN" }

NotificationMethod == { "NONE", "NTFY", "DISCORD" }

\* NotificationConfig(): method NONE, no destination, every event type listed
DefaultNotificationConfig ==
    [ method |-> "NONE", webhookURL |-> FALSE, topic |-> FALSE,
      EventWhitelist |-> << "START", "SHUTDOWN", "PLAYER_JOIN" >> ]

\* the lists of event types a config file can give, repetitions included
EventLists ==
    UNION { [1..n -> EventType] : n \in 0..MaxWhitelistLen }

\* the notification sections a config file can hold; webhookURL and topic
\* say whether the destination is set
NotificationConfigs ==
    [ method : NotificationMethod, webhookURL : BOOLEAN, topic : BOOLEAN,
      EventWhitelist : EventLists ]

\* the networks the launcher is run in: what the three probes would answer
Networks ==
    { [local |-> TRUE,  nonlocal |-> TRUE,  rcon |-> FALSE],
      [local |-> FALSE, nonlocal |-> FALSE, rcon |-> TRUE] }

AllNetworks == [local : BOOLEAN, nonlocal : BOOLEAN, rcon : BOOLEAN]

InNetwork(n) ==
    /\ netLocal = n.local
    /\ netNonLocal = n.nonlocal
    /\ rconExposed = n.rcon

Init ==
    /\ ProgramStart
    /\ notifications = DefaultNotificationConfig
    /\ CheckNetwork \in BOOLEAN
    /\ \E n \in (IF CheckNetwork THEN Networks
                  ELSE { [local |-> TRUE, nonlocal |-> TRUE, rcon |-> FALSE] }) :
          InNetwork(n)
    /\ SendStatus \in BOOLEAN
    /\ command \in LauncherCommand
    /\ pc = "main"
    /\ \E i \in Installations :
          /\ oldversion = i.old
          /\ exeExists = i.exe
          /\ fetched = i.ok
          /\ latestVersion = i.new

(***************************************************************************)
(* The collaborators' operations, as far as the launcher depends on them.  *)
(***************************************************************************)
\* the log entry of a call of StatusUpdaterThread.update_status
UpdateCall(state) ==
    CASE state = "running" -> "status_running"
      [] state = "forced" -> "status_forced"
      [] state = "offline" -> "status_offline"

UpdateStatusPushAlways(state) ==
    /\ statusState' = state
    /\ pushes' = Append(pushes, state)
    /\ log' = Append(log, UpdateCall(state))

UpdateStatusPushOld(state) ==
    /\ statusState' = state
    /\ pushes' = IF reporterStarted THEN Append(pushes, statusState) ELSE pushes
    /\ log' = Append(log, UpdateCall(state))

UpdateStatusKeepWhenStopped(state) ==
    /\ statusState' = IF reporterStarted THEN state ELSE statusState
    /\ pushes' = IF reporterStarted THEN Append(pushes, state) ELSE pushes
    /\ log' = Append(log, UpdateCall(state))

\* StatusUpdaterThread.update_status(status, message): the state is
\* retained, and sent at once when the thread is running
UpdateStatus(state) ==
    /\ statusState' = state
    /\ pushes' = IF reporterStarted THEN Append(pushes, state) ELSE pushes
    /\ log' = Append(log, UpdateCall(state))

\* AstroDedicatedServer.kill(): the child process is gone afterwards
Kill ==
    /\ procAlive' = FALSE
    /\ status' = "STOPPED"
    /\ rconConnected' = FALSE

\* where the script goes when the action it dispatched has returned
ScriptEnd ==
    /\ term' = "end"
    /\ pc' = "done"

(***************************************************************************)
(* exit(graceful=True).                                                    *)
(***************************************************************************)
GracefulBranchShutdownOnly(ds, st, rcon) ==
    IF ds /\ st \in { "RUNNING", "STARTING" } THEN "shutdown" ELSE "exit0"

GracefulBranchKillStopped(ds, st, rcon) ==
    IF ds THEN (IF ~ rcon THEN "kill" ELSE "shutdown") ELSE "exit0"

GracefulBranchKillAlways(ds, st, rcon) ==
    IF ds /\ st \in { "RUNNING", "STARTING" } THEN "kill" ELSE "exit0"

\* exit, graceful path: what the call does, from the handle, the status and
\* the remote console's connection
GracefulBranch(ds, st, rcon) ==
    IF ds /\ st \in { "RUNNING", "STARTING" }
    THEN IF ~ rcon THEN "kill" ELSE "shutdown"
    ELSE "exit0"

ExitForced(before) ==
    /\ gracefulCalls' = gracefulCalls
    /\ log' = log \o before
    /\ pc' = "exit_kill"
    /\ UNCHANGED << childVars, term, reportVars >>

\* exit(graceful=True), called with `before` already written to the log
ExitGraceful(before) ==
    LET branch == GracefulBranch(dedicatedserver, status, rconConnected) IN
    /\ gracefulCalls' = gracefulCalls + 1
    /\ CASE branch = "kill" ->
              /\ Kill
              /\ log' = log \o before \o << "kill" >>
              /\ UNCHANGED term
         [] branch = "shutdown" ->
              /\ log' = log \o before \o << "shutdown" >>
              /\ UNCHANGED << childVars, term >>
         [] branch = "exit0" ->
              /\ log' = log \o before \o << "sys.exit(0)" >>
              /\ term' = "exit0"
              /\ UNCHANGED childVars
    /\ UNCHANGED << pc, reportVars >>

\* user_exit: the SIGINT handler, run on the main thread wherever it is
user_exit ==
    /\ handlerInstalled
    /\ term = "running"
    /\ sigCount < MaxSignals
    /\ sigCount' = sigCount + 1
    /\ ExitGraceful(<< "SIGINT" >>)
    /\ UNCHANGED << cliVars, envVars, netVars, notifVars, channelVars, gateVars, handleVars, handlerInstalled,
                    workerVars, failures >>

\* SIGINT while the launcher is being constructed: KeyboardInterrupt
keyboard_interrupt ==
    /\ ~ handlerInstalled
    /\ term = "running"
    /\ pc \in { "exit_kill", "exit_status", "exit_sleep" }
    /\ sigCount < MaxSignals
    /\ sigCount' = sigCount + 1
    /\ term' = "exit0"
    /\ log' = log \o << "SIGINT", "sys.exit(0)" >>
    /\ UNCHANGED << cliVars, envVars, netVars, notifVars, channelVars, gateVars, handleVars, handlerInstalled,
                    workerVars, failures, pc, childVars, gracefulCalls,
                    reportVars >>

(***************************************************************************)
(* exit(graceful=False): three steps, a signal may arrive between them.    *)
(***************************************************************************)
KillIfRunning(ds, st) == ds /\ st \in { "RUNNING", "STARTING" }

\* exit, non-graceful path: whether kill() is called
KillIfPresent(ds, st) == ds

exit_kill ==
    /\ term = "running"
    /\ pc = "exit_kill"
    /\ IF KillIfPresent(dedicatedserver, status)
       THEN /\ Kill
            /\ log' = Append(log, "kill")
       ELSE UNCHANGED << childVars, log >>
    /\ pc' = "exit_status"
    /\ UNCHANGED << cliVars, envVars, netVars, notifVars, channelVars, gateVars, handleVars, handlerInstalled,
                    sigVars, workerVars, failures, term, reportVars >>

exit_update_status ==
    /\ term = "running"
    /\ pc = "exit_status"
    /\ IF status_thread
       THEN UpdateStatus("forced")
       ELSE UNCHANGED << statusState, pushes, log >>
    /\ pc' = "exit_sleep"
    /\ UNCHANGED << cliVars, envVars, netVars, notifVars, channelVars, gateVars, handleVars, handlerInstalled,
                    sigVars, workerVars, failures, term, childVars >>

ForcedExitCodeZero == "exit0"

\* exit, non-graceful path: sys.exit(1)
ForcedExitCode == "exit1"

exit_terminate ==
    /\ term = "running"
    /\ pc = "exit_sleep"
    /\ term' = ForcedExitCode
    /\ log' = Append(log, "sys.exit(1)")
    /\ UNCHANGED << cliVars, envVars, netVars, notifVars, channelVars, gateVars, handleVars, handlerInstalled,
                    sigVars, workerVars, failures, pc, childVars, reportVars >>

\* a failed step of start_server calls self.exit(reason=...)
FailWith(step) ==
    /\ failures' = failures \cup { step }
    /\ pc' = "exit_kill"

\* an exception leaves start_server: the script's except clause takes over
RaiseFrom(step) ==
    /\ failures' = failures \cup { step }
    /\ pc' = "main_except"

(***************************************************************************)
(* The main script.                                                        *)
(***************************************************************************)
\* genconfig: the config file is written and the script exits
main_genconfig ==
    /\ term = "running"
    /\ pc = "main"
    /\ command = "genconfig"
    /\ term' = "exit0"
    /\ log' = Append(log, "sys.exit(0)")
    /\ UNCHANGED << cliVars, envVars, netVars, notifVars, channelVars, gateVars, handleVars, handlerInstalled,
                    sigVars, workerVars, failures, pc, childVars, reportVars >>

HandlersWhenDestinationSet(cfg) ==
    { "Logging" }
       \cup (IF cfg.webhookURL THEN { "Discord" } ELSE {})
       \cup (IF cfg.method = "NTFY" /\ cfg.topic THEN { "Ntfy" } ELSE {})

\* __init__: the handlers added to self.notifications
Handlers(cfg) ==
    { "Logging" }
       \cup (IF cfg.method = "DISCORD" /\ cfg.webhookURL THEN { "Discord" } ELSE {})
       \cup (IF cfg.method = "NTFY" /\ cfg.topic THEN { "Ntfy" } ELSE {})

StartupWarningsNone(cfg) == << >>

\* __init__: the warnings logged instead of adding a handler
StartupWarnings(cfg) ==
    IF cfg.method = "DISCORD" /\ ~ cfg.webhookURL
    THEN << "discord_webhook_unset" >>
    ELSE IF cfg.method = "NTFY" /\ ~ cfg.topic
         THEN << "ntfy_topic_unset" >>
         ELSE << >>

\* AstroTuxLauncher(...): the constructor, with each way it can end
init_launcher ==
    /\ term = "running"
    /\ pc = "main"
    /\ command # "genconfig"
    /\ \E outcome \in { "ok", "config_error", "wine_missing", "exception" } :
          CASE outcome = "ok" ->
                  /\ dedicatedserver' = TRUE
                  /\ status_thread' = TRUE
                  /\ handlers' = Handlers(notifications)
                  /\ warnings' = StartupWarnings(notifications)
                  /\ pc' = "constructed"
                  /\ UNCHANGED << term, log, failures >>
            [] outcome \in { "config_error", "wine_missing" } ->
                  \* self.exit() before either handle is set
                  /\ FailWith(outcome)
                  /\ UNCHANGED << handleVars, term, log, handlers, warnings >>
            [] outcome = "exception" ->
                  /\ term' = "exit1"
                  /\ log' = Append(log, "sys.exit(1)")
                  /\ failures' = failures \cup { "init" }
                  /\ UNCHANGED << handleVars, pc, handlers, warnings >>
    /\ UNCHANGED << cliVars, envVars, netVars, notifications, notified, channelVars, gateVars, handlerInstalled, sigVars,
                    workerVars, childVars, reportVars >>

\* signal.signal(SIGINT, launcher.user_exit), then the dispatch on the action
main_dispatch ==
    /\ term = "running"
    /\ pc = "constructed"
    /\ handlerInstalled' = TRUE
    /\ IF command = "install"
       THEN /\ pc' = "update_tool"
            /\ log' = Append(log, "update_app")
       ELSE /\ pc' = "check_update"
            /\ UNCHANGED log
    /\ UNCHANGED << cliVars, envVars, netVars, notifVars, channelVars, gateVars, handleVars, sigVars,
                    workerVars, failures, term, childVars, reportVars >>

AfterUpdateAlwaysStarts ==
    pc' = "health" /\ UNCHANGED term

\* where control goes when check_server_update or update_server returns
AfterUpdate ==
    IF command = "start"
    THEN pc' = "health" /\ UNCHANGED term
    ELSE ScriptEnd

\* check_server_update(force_update): the decision, and the call of
\* update_server when it is due
check_server_update ==
    /\ term = "running"
    /\ pc = "check_update"
    /\ do_update' = DoUpdate(oldversion, exeExists, fetched, latestVersion)
    /\ gateDone' = TRUE
    /\ LET consulted == IF Installed(oldversion, exeExists)
                        THEN << "get_request" >> ELSE << >>
       IN  IF RunTool(do_update', AutoUpdateServer, command = "update")
           THEN /\ pc' = "update_tool"
                /\ log' = log \o << "version_gate" >> \o consulted
                               \o << "update_app" >>
                /\ UNCHANGED term
           ELSE /\ AfterUpdate
                /\ log' = log \o << "version_gate" >> \o consulted
    /\ UNCHANGED << cliVars, envVars, netVars, notifVars, channelVars, handleVars, handlerInstalled, sigVars,
                    workerVars, failures, childVars, reportVars >>

\* update_server: steam.update_app returns, or raises
update_server ==
    /\ term = "running"
    /\ pc = "update_tool"
    /\ \E outcome \in { "ok", "failed", "raised" } :
          CASE outcome = "ok" ->
                  /\ AfterUpdate
                  /\ UNCHANGED << failures, log >>
            [] outcome = "failed" ->
                  \* logged as an error, nothing else
                  /\ AfterUpdate
                  /\ failures' = failures \cup { "update_failed" }
                  /\ UNCHANGED log
            [] outcome = "raised" ->
                  IF command = "start"
                  THEN /\ RaiseFrom("update_raised")
                       /\ UNCHANGED << term, log >>
                  ELSE /\ term' = "exit1"
                       /\ pc' = "done"
                       /\ log' = Append(log, "sys.exit(1)")
                       /\ failures' = failures \cup { "update_raised" }
    /\ UNCHANGED << cliVars, envVars, netVars, notifVars, channelVars, gateVars, handleVars, handlerInstalled,
                    sigVars, workerVars, childVars, reportVars >>

\* the script's except clause around start_server: kill, then re-raise
main_except ==
    /\ term = "running"
    /\ pc = "main_except"
    /\ IF dedicatedserver
       THEN /\ Kill
            /\ log' = Append(log, "kill")
       ELSE UNCHANGED << childVars, log >>
    /\ term' = "raised"
    /\ UNCHANGED << cliVars, envVars, netVars, notifVars, channelVars, gateVars, handleVars, handlerInstalled,
                    sigVars, workerVars, failures, pc, reportVars >>

(***************************************************************************)
(* start_server.                                                           *)
(***************************************************************************)
AfterInputFirst(step) ==
    CASE step = "health" -> "wine"
      [] step = "wine_wait" -> "input"
      [] step = "input" -> "ports"
      [] step = "ports" -> IF CheckNetwork THEN "netcheck" ELSE "launch"
      [] step = "netcheck" -> "launch"
      [] step = "launching" -> "status_running"
      [] step = "status_running" -> IF SendStatus THEN "reporter" ELSE "loop_enter"
      [] step = "reporter" -> "loop_enter"

AfterReporterFirst(step) ==
    CASE step = "health" -> "wine"
      [] step = "wine_wait" -> "ports"
      [] step = "ports" -> IF CheckNetwork THEN "netcheck" ELSE "input"
      [] step = "netcheck" -> "input"
      [] step = "input" -> IF SendStatus THEN "reporter" ELSE "launch"
      [] step = "reporter" -> "launch"
      [] step = "launching" -> "status_running"
      [] step = "status_running" -> "loop_enter"

\* start_server: the statement that follows a step that went well
After(step) ==
    CASE step = "health" -> "wine"
      [] step = "wine_wait" -> "ports"
      [] step = "ports" -> IF CheckNetwork THEN "netcheck" ELSE "input"
      [] step = "netcheck" -> "input"
      [] step = "input" -> "launch"
      [] step = "launching" -> "status_running"
      [] step = "status_running" -> IF SendStatus THEN "reporter" ELSE "loop_enter"
      [] step = "reporter" -> "loop_enter"

AdviceSwapped(local, nonlocal) ==
    CASE local /\ nonlocal -> "looks_good"
      [] ~ local /\ nonlocal -> "port_forwarding"
      [] local /\ ~ nonlocal -> "nat_loopback"
      [] ~ local /\ ~ nonlocal -> "unreachable"

\* check_network_config: the message logged for test_res
Advice(local, nonlocal) ==
    CASE local /\ nonlocal -> "looks_good"
      [] ~ local /\ nonlocal -> "nat_loopback"
      [] local /\ ~ nonlocal -> "port_forwarding"
      [] ~ local /\ ~ nonlocal -> "unreachable"

RconAlertWhenUnreachable(local, nonlocal, rcon_reachable) ==
    rcon_reachable /\ ~ nonlocal

\* check_network_config: whether the security alert is logged and the
\* launcher sleeps; rcon_local_blocked is the negation of the probe's answer
RconAlert(local, nonlocal, rcon_reachable) ==
    LET rcon_local_blocked == ~ rcon_reachable IN ~ rcon_local_blocked

OnFailureLogOnly(step) ==
    /\ failures' = failures \cup { step }
    /\ pc' = After(pc)

\* start_server: what a failed check does
OnFailure(step) == FailWith(step)

\* playfab.check_api_health()
check_api_health ==
    /\ term = "running"
    /\ pc = "health"
    /\ \E outcome \in { "ok", "failed", "raised" } :
          CASE outcome = "ok" ->
                  /\ pc' = After("health")
                  /\ log' = Append(log, "health_ok")
                  /\ UNCHANGED failures
            [] outcome = "failed" ->
                  /\ OnFailure("health")
                  /\ UNCHANGED log
            [] outcome = "raised" ->
                  /\ RaiseFrom("health_raised")
                  /\ UNCHANGED log
    /\ UNCHANGED << cliVars, envVars, netVars, notifVars, channelVars, gateVars, handleVars, handlerInstalled,
                    sigVars, workerVars, term, childVars, reportVars >>

\* update_wine_prefix, up to the blocking wait on wineboot
wineboot_begin ==
    /\ term = "running"
    /\ pc = "wine"
    /\ pc' = "wine_wait"
    /\ log' = Append(log, "wineboot")
    /\ UNCHANGED << cliVars, envVars, netVars, notifVars, channelVars, gateVars, handleVars, handlerInstalled,
                    sigVars, workerVars, failures, term, childVars,
                    reportVars >>

\* the log entry for the way the wait on wineboot ended
WineEnded(outcome) ==
    CASE outcome = "code0" -> "wine_code0"
      [] outcome = "nonzero" -> "wine_nonzero"
      [] outcome = "timeout" -> "wine_timeout"
      [] outcome = "error" -> "wine_error"

WineSuccessUnlessError(outcome) == outcome \in { "code0", "nonzero", "timeout" }

\* update_wine_prefix: the value returned for each way the wait can end
WineSuccess(outcome) == outcome = "code0"

\* update_wine_prefix returns, and start_server tests the value
wineboot_end ==
    /\ term = "running"
    /\ pc = "wine_wait"
    /\ \E outcome \in { "code0", "nonzero", "timeout", "error" } :
          IF WineSuccess(outcome)
          THEN /\ pc' = After("wine_wait")
               /\ log' = log \o << WineEnded(outcome), "wine_ok" >>
               /\ UNCHANGED failures
          ELSE /\ OnFailure("wine")
               /\ log' = Append(log, WineEnded(outcome))
    /\ UNCHANGED << cliVars, envVars, netVars, notifVars, channelVars, gateVars, handleVars, handlerInstalled,
                    sigVars, workerVars, term, childVars, reportVars >>

\* dedicatedserver.check_ports_free()
check_ports_free ==
    /\ term = "running"
    /\ pc = "ports"
    /\ \E outcome \in { "ok", "failed", "raised" } :
          CASE outcome = "ok" ->
                  /\ pc' = After("ports")
                  /\ log' = Append(log, "ports_ok")
                  /\ UNCHANGED failures
            [] outcome = "failed" ->
                  /\ OnFailure("ports")
                  /\ UNCHANGED log
            [] outcome = "raised" ->
                  /\ RaiseFrom("ports_raised")
                  /\ UNCHANGED log
    /\ UNCHANGED << cliVars, envVars, netVars, notifVars, channelVars, gateVars, handleVars, handlerInstalled,
                    sigVars, workerVars, term, childVars, reportVars >>

\* check_network_config(): advisory, or an exception of a probe
check_network_config ==
    /\ term = "running"
    /\ pc = "netcheck"
    /\ \E outcome \in { "done", "raised" } :
          IF outcome = "done"
          THEN IF RconAlert(netLocal, netNonLocal, rconExposed)
               THEN /\ pc' = "net_pause"
                    /\ log' = log \o << "netcheck", Advice(netLocal, netNonLocal),
                                        "security_alert" >>
                    /\ UNCHANGED failures
               ELSE /\ pc' = After("netcheck")
                    /\ log' = log \o << "netcheck", Advice(netLocal, netNonLocal),
                                        "rcon_good" >>
                    /\ UNCHANGED failures
          ELSE /\ RaiseFrom("netcheck_raised")
               /\ UNCHANGED log
    /\ UNCHANGED << cliVars, envVars, netVars, notifVars, channelVars, gateVars, handleVars, handlerInstalled,
                    sigVars, workerVars, term, childVars, reportVars >>

\* check_network_config: time.sleep(5) is over and the function returns
net_pause_end ==
    /\ term = "running"
    /\ pc = "net_pause"
    /\ pc' = After("netcheck")
    /\ log' = Append(log, "pause_end")
    /\ UNCHANGED << cliVars, envVars, netVars, notifVars, channelVars, gateVars, handleVars, handlerInstalled,
                    sigVars, workerVars, failures, term, childVars,
                    reportVars >>

\* input_thread.start()
input_thread_start ==
    /\ term = "running"
    /\ pc = "input"
    /\ \E outcome \in { "ok", "raised" } :
          IF outcome = "ok"
          THEN /\ pc' = After("input")
               /\ inputStarted' = TRUE
               /\ log' = Append(log, "input_start")
               /\ UNCHANGED failures
          ELSE /\ RaiseFrom("input")
               /\ UNCHANGED << inputStarted, log >>
    /\ UNCHANGED << cliVars, envVars, netVars, notifVars, channelVars, gateVars, handleVars, handlerInstalled,
                    sigVars, reporterStarted, term, childVars, reportVars >>

\* dedicatedserver.start() is entered: the child process is being started
ds_start_begin ==
    /\ term = "running"
    /\ pc = "launch"
    /\ pc' = "launching"
    /\ status' = "STARTING"
    /\ procAlive' = TRUE
    /\ log' = Append(log, "launch")
    /\ UNCHANGED << cliVars, envVars, netVars, notifVars, channelVars, gateVars, handleVars, handlerInstalled,
                    sigVars, workerVars, failures, term, rconConnected,
                    reportVars >>

LaunchReturnedFalseIsFatal ==
    /\ Kill
    /\ FailWith("launch_false")
    /\ UNCHANGED << term, log >>

LaunchReturnedFalseGoesOn ==
    /\ Kill
    /\ failures' = failures \cup { "launch_false" }
    /\ pc' = "status_running"
    /\ UNCHANGED << term, log >>

\* start_server when dedicatedserver.start() returned False: it returns,
\* and the script ends
LaunchReturnedFalse ==
    /\ Kill
    /\ ScriptEnd
    /\ failures' = failures \cup { "launch_false" }
    /\ UNCHANGED log

\* dedicatedserver.start() returns True, returns False, or raises
ds_start_end ==
    /\ term = "running"
    /\ pc = "launching"
    /\ \E outcome \in { "true", "false", "raised" } :
          CASE outcome = "true" ->
                  /\ procAlive /\ status = "STARTING"
                  /\ status' = "RUNNING"
                  /\ pc' = After("launching")
                  /\ log' = Append(log, "launch_ok")
                  /\ UNCHANGED << procAlive, rconConnected, failures, term >>
            [] outcome = "false" -> LaunchReturnedFalse
            [] outcome = "raised" ->
                  /\ OnFailure("launch")
                  /\ UNCHANGED << childVars, term, log >>
    /\ UNCHANGED << cliVars, envVars, netVars, notifVars, channelVars, gateVars, handleVars, handlerInstalled,
                    sigVars, workerVars, reportVars >>

\* status_thread.update_status(status=True, message="Server is running")
update_status_running ==
    /\ term = "running"
    /\ pc = "status_running"
    /\ UpdateStatus("running")
    /\ pc' = After("status_running")
    /\ UNCHANGED << cliVars, envVars, netVars, notifVars, channelVars, gateVars, handleVars, handlerInstalled,
                    sigVars, workerVars, failures, term, childVars >>

\* status_thread.start()
status_thread_start ==
    /\ term = "running"
    /\ pc = "reporter"
    /\ reporterStarted' = TRUE
    /\ log' = Append(log, "reporter_start")
    /\ pc' = After("reporter")
    /\ UNCHANGED << cliVars, envVars, netVars, notifVars, channelVars, gateVars, handleVars, handlerInstalled,
                    sigVars, inputStarted, failures, term, childVars,
                    reportVars >>

\* dedicatedserver.server_loop() is entered
server_loop_enter ==
    /\ term = "running"
    /\ pc = "loop_enter"
    /\ pc' = "loop"
    /\ log' = Append(log, "server_loop")
    /\ queuedAtLoopEntry' = Len(cmd_queue)
    /\ UNCHANGED << inputLines, cmd_queue, delivered >>
    /\ UNCHANGED << cliVars, envVars, netVars, notifVars, gateVars, handleVars, handlerInstalled,
                    sigVars, workerVars, failures, term, childVars,
                    reportVars >>

\* server_loop() sees that the child process has ended and returns
server_loop_end ==
    /\ term = "running"
    /\ pc = "loop"
    /\ ~ procAlive
    /\ status' = "STOPPED"
    /\ rconConnected' = FALSE
    /\ log' = Append(log, "loop_end")
    /\ ScriptEnd
    /\ UNCHANGED << cliVars, envVars, netVars, notifVars, channelVars, gateVars, handleVars, handlerInstalled,
                    sigVars, workerVars, failures, procAlive, reportVars >>

\* server_loop() raises: the exception leaves start_server
server_loop_raise ==
    /\ term = "running"
    /\ pc = "loop"
    /\ RaiseFrom("loop_raised")
    /\ UNCHANGED << cliVars, envVars, netVars, notifVars, channelVars, gateVars, handleVars, handlerInstalled,
                    sigVars, workerVars, term, childVars, reportVars, log >>

(***************************************************************************)
(* The child process and its remote console.                               *)
(***************************************************************************)
\* the child process ends by itself (a shutdown it was asked for, or a crash)
child_exit ==
    /\ term = "running"
    /\ procAlive
    /\ procAlive' = FALSE
    /\ rconConnected' = FALSE
    /\ UNCHANGED << cliVars, envVars, netVars, notifVars, channelVars, gateVars, handleVars, handlerInstalled,
                    sigVars, workerVars, failures, term, pc, status,
                    reportVars, log >>

\* the remote console session to the child gets connected
rcon_connect ==
    /\ term = "running"
    /\ procAlive
    /\ status \in { "STARTING", "RUNNING" }
    /\ ~ rconConnected
    /\ rconConnected' = TRUE
    /\ UNCHANGED << cliVars, envVars, netVars, notifVars, channelVars, gateVars, handleVars, handlerInstalled,
                    sigVars, workerVars, failures, term, pc, status,
                    procAlive, reportVars, log >>

(***************************************************************************)
(* The input thread and the command queue.                                 *)
(***************************************************************************)
\* the lines typed on the console
ConsoleLines == { "help", "bogus", "list" }

\* console_parser.parse_input(line): (success, result)
ParseInput(line) ==
    CASE line = "help" -> [success |-> TRUE, cmd |-> "HELP"]
      [] line = "list" -> [success |-> TRUE, cmd |-> "LIST"]
      [] OTHER -> [success |-> FALSE, cmd |-> "error message"]

IsQueuedWithHelp(parsed) == parsed.success

IsQueuedWithErrors(parsed) == parsed.cmd # "HELP"

\* on_input: whether the parsed line is put on cmd_queue
IsQueued(parsed) == parsed.success /\ parsed.cmd # "HELP"

QueuePutFront(q, item) == << item >> \o q

QueuePutTwice(q, item) == q \o << item, item >>

\* cmd_queue.put(result) on a queue.Queue: first in, first out
QueuePut(q, item) == Append(q, item)

\* on_input(input_string): the input thread's callback for one console line;
\* the queued result carries the number of the line it came from
on_input ==
    /\ term = "running"
    /\ inputStarted
    /\ Len(inputLines) < MaxInputs
    /\ \E line \in ConsoleLines :
          LET parsed == ParseInput(line)
              result == [cmd |-> parsed.cmd, line |-> Len(inputLines) + 1]
          IN  /\ inputLines' = Append(inputLines, line)
              /\ cmd_queue' = IF IsQueued(parsed)
                              THEN QueuePut(cmd_queue, result)
                              ELSE cmd_queue
    /\ UNCHANGED << cliVars, envVars, netVars, notifVars, gateVars, handleVars, handlerInstalled,
                    sigVars, workerVars, failures, term, pc, childVars,
                    reportVars, log, delivered, queuedAtLoopEntry >>

\* server_loop() takes the next command from cmd_queue
loop_dequeue ==
    /\ term = "running"
    /\ pc = "loop"
    /\ Len(cmd_queue) > 0
    /\ delivered' = Append(delivered, Head(cmd_queue))
    /\ cmd_queue' = Tail(cmd_queue)
    /\ UNCHANGED << cliVars, envVars, netVars, notifVars, gateVars, handleVars, handlerInstalled,
                    sigVars, workerVars, failures, term, pc, childVars,
                    reportVars, log, inputLines, queuedAtLoopEntry >>

\* what the launcher can do for the actions that construct it
LauncherNext ==
    \/ init_launcher
    \/ main_dispatch
    \/ check_server_update
    \/ update_server
    \/ main_except
    \/ check_api_health
    \/ wineboot_begin
    \/ wineboot_end
    \/ check_ports_free
    \/ check_network_config
    \/ net_pause_end
    \/ input_thread_start
    \/ ds_start_begin
    \/ ds_start_end
    \/ update_status_running
    \/ status_thread_start
    \/ server_loop_enter
    \/ server_loop_end
    \/ server_loop_raise
    \/ child_exit
    \/ rcon_connect
    \/ user_exit
    \/ keyboard_interrupt
    \/ exit_kill
    \/ exit_update_status
    \/ exit_terminate

Next ==
    \/ main_genconfig
    \/ LauncherNext

Spec == Init /\ [][Next]_vars

\* the main thread, once inside exit() or the script's except clause, goes on
\* to the end of it
SpecFair ==
    /\ Spec
    /\ WF_vars(exit_kill)
    /\ WF_vars(exit_update_status)
    /\ WF_vars(exit_terminate)
    /\ WF_vars(main_except)

(***************************************************************************)
(* The version gate on its own: check_server_update applied to every       *)
(* installation and endpoint answer within the bounds.                     *)
(***************************************************************************)
InitGate ==
    /\ ProgramStart
    /\ notifications = DefaultNotificationConfig
    /\ CheckNetwork = TRUE
    /\ InNetwork([local |-> TRUE, nonlocal |-> TRUE, rcon |-> FALSE])
    /\ SendStatus = FALSE
    /\ command \in { "start", "update" }
    /\ pc = "check_update"
    /\ oldversion \in VersionStrings \cup { NoVersion }
    /\ exeExists \in BOOLEAN
    /\ fetched \in BOOLEAN
    /\ latestVersion \in IF fetched THEN VersionStrings ELSE { << 0 >> }

NextGate == check_server_update

SpecGate == InitGate /\ [][NextGate]_vars

(***************************************************************************)
(* The start sequence with the network check enabled, in every network.    *)
(***************************************************************************)
InitNet ==
    /\ ProgramStart
    /\ notifications = DefaultNotificationConfig
    /\ AutoUpdateServer
    /\ CheckNetwork = TRUE
    /\ SendStatus = TRUE
    /\ command = "start"
    /\ pc = "main"
    /\ oldversion = NoVersion
    /\ exeExists = FALSE
    /\ fetched = TRUE
    /\ latestVersion = << 1, 1 >>
    /\ \E n \in AllNetworks : InNetwork(n)

SpecNet == InitNet /\ [][LauncherNext]_vars

(***************************************************************************)
(* The status updater thread on its own: the constructor of the launcher   *)
(* creates it stopped, and from then on update_status is called by the     *)
(* launcher and the dedicated server, the thread is started and stopped,   *)
(* and its timer fires, in any order.                                      *)
(***************************************************************************)
StatusValues == { "offline", "running", "forced" }

otherVars ==
    << cliVars, envVars, netVars, channelVars, gateVars, handleVars,
       handlerInstalled, sigVars, inputStarted, failures, term, pc, childVars >>

\* status_thread.update_status(status, message)
reporter_update_status ==
    /\ term = "running"
    /\ status_thread
    /\ Len(log) < MaxCalls
    /\ \E state \in StatusValues : UpdateStatus(state)
    /\ UNCHANGED << otherVars, notifVars, reporterStarted >>

\* status_thread.start()
reporter_start ==
    /\ term = "running"
    /\ status_thread
    /\ Len(log) < MaxCalls
    /\ ~ reporterStarted
    /\ reporterStarted' = TRUE
    /\ log' = Append(log, "reporter_start")
    /\ UNCHANGED << otherVars, notifVars, reportVars >>

\* the thread is stopped
reporter_stop ==
    /\ term = "running"
    /\ status_thread
    /\ Len(log) < MaxCalls
    /\ reporterStarted
    /\ reporterStarted' = FALSE
    /\ log' = Append(log, "reporter_stop")
    /\ UNCHANGED << otherVars, notifVars, reportVars >>

TimerPushStale(sent) ==
    Append(sent, IF sent = << >> THEN "offline" ELSE sent[Len(sent)])

\* what the timer sends: the retained state
TimerPush(sent) == Append(sent, statusState)

\* the interval has passed: the retained state is sent again
reporter_timer ==
    /\ term = "running"
    /\ reporterStarted
    /\ Len(pushes) < MaxPushes
    /\ pushes' = TimerPush(pushes)
    /\ UNCHANGED << otherVars, notifVars, reporterStarted, statusState, log >>

InitStatus ==
    /\ ProgramStart
    /\ notifications = DefaultNotificationConfig
    /\ AutoUpdateServer
    /\ CheckNetwork = FALSE
    /\ SendStatus = TRUE
    /\ command = "start"
    /\ pc = "main"
    /\ oldversion = << 1, 1 >>
    /\ exeExists = TRUE
    /\ fetched = TRUE
    /\ latestVersion = << 1, 1 >>
    /\ InNetwork([local |-> TRUE, nonlocal |-> TRUE, rcon |-> FALSE])

StatusNext ==
    \/ init_launcher
    \/ reporter_update_status
    \/ reporter_start
    \/ reporter_stop
    \/ reporter_timer

SpecStatus == InitStatus /\ [][StatusNext]_vars

(***************************************************************************)
(* The start sequence together with the input thread and the run loop's    *)
(* reads of the command queue.                                             *)
(***************************************************************************)
InitChannel ==
    /\ ProgramStart
    /\ notifications = DefaultNotificationConfig
    /\ AutoUpdateServer
    /\ CheckNetwork = TRUE
    /\ SendStatus = TRUE
    /\ command = "start"
    /\ pc = "main"
    /\ oldversion = NoVersion
    /\ exeExists = FALSE
    /\ fetched = TRUE
    /\ latestVersion = << 1, 1 >>
    /\ InNetwork([local |-> TRUE, nonlocal |-> TRUE, rcon |-> TRUE])

ChannelNext ==
    \/ LauncherNext
    \/ on_input
    \/ loop_dequeue

SpecChannel == InitChannel /\ [][ChannelNext]_vars

(***************************************************************************)
(* The notification manager: the constructor of the launcher adds the      *)
(* handlers the config file asks for, and from then on the launcher and    *)
(* the dedicated server call notify with events of any type.               *)
(***************************************************************************)
\* set(self.config.notifications.EventWhitelist)
SetOf(list) == { list[i] : i \in 1..Len(list) }

\* the event_whitelist a handler was constructed with; the logging handler
\* is constructed without one
Whitelist(h) ==
    IF h = "Logging" THEN EventType ELSE SetOf(notifications.EventWhitelist)

InvokedAll(type) == handlers

InvokedFirstListed(type) ==
    { h \in handlers :
         \/ h = "Logging"
         \/ /\ notifications.EventWhitelist # << >>
            /\ type = notifications.EventWhitelist[1] }

\* NotificationManager.notify: the handlers whose handle(event) is called
Invoked(type) == { h \in handlers : type \in Whitelist(h) }

InvokedUntilFailure(type, failing) ==
    IF "Logging" \in failing THEN { "Logging" } ELSE Invoked(type)

\* NotificationManager.notify: the handlers called when the deliveries of
\* the handlers in failing fail
InvokedDespite(type, failing) == Invoked(type)

RaisesOnFailure(type, failing) == Invoked(type) \cap failing # {}

\* NotificationManager.notify: whether the caller gets an exception
Raises(type, failing) == FALSE

\* notifications.notify(event)
notify ==
    /\ term = "running"
    /\ dedicatedserver
    /\ Len(notified) < MaxEvents
    /\ \E type \in EventType, failing \in SUBSET handlers :
          notified' = Append(notified,
                             [ type |-> type,
                               failing |-> failing,
                               invoked |-> InvokedDespite(type, failing),
                               raised |-> Raises(type, failing) ])
    /\ UNCHANGED << otherVars, reporterStarted, reportVars, log, notifications,
                    handlers, warnings >>

InitNotify ==
    /\ ProgramStart
    /\ notifications \in NotificationConfigs
    /\ AutoUpdateServer
    /\ CheckNetwork = FALSE
    /\ SendStatus = FALSE
    /\ command = "start"
    /\ pc = "main"
    /\ oldversion = << 1, 1 >>
    /\ exeExists = TRUE
    /\ fetched = TRUE
    /\ latestVersion = << 1, 1 >>
    /\ InNetwork([local |-> TRUE, nonlocal |-> TRUE, rcon |-> FALSE])

NotifyNext ==
    \/ init_launcher
    \/ notify

SpecNotify == InitNotify /\ [][NotifyNext]_vars

(***************************************************************************)
(* Properties.                                                             *)
(***************************************************************************)
\* a step in which the installed SIGINT handler runs
HandlerStep == handlerInstalled /\ sigCount' = sigCount + 1

ChildActive == dedicatedserver /\ status \in { "RUNNING", "STARTING" }

\* the log ends with the entries of `tail`
LogEndsWith(tail) ==
    /\ Len(log) >= Len(tail)
    /\ SubSeq(log, Len(log) - Len(tail) + 1, Len(log)) = tail

ExitPcs == { "exit_kill", "exit_status", "exit_sleep" }

\* C1: exit(graceful=True) called while the child status is RUNNING or
\* STARTING and no remote-console session is connected calls kill() on the
\* child, calls no shutdown(), and returns to the interrupted flow without
\* terminating the application.
C1_GracefulKillsWithoutRcon ==
    [][ (HandlerStep /\ ChildActive /\ ~ rconConnected)
        => /\ log' = log \o << "SIGINT", "kill" >>
           /\ term' = "running"
           /\ pc' = pc ]_vars

C1_Witness ==
    /\ term = "running"
    /\ pc = "loop"
    /\ LogEndsWith(<< "server_loop", "SIGINT", "kill" >>)

\* C2: exit(graceful=True) called while the child status is neither STARTING
\* nor RUNNING terminates the application at once with exit code 0, calls
\* neither kill() nor shutdown() on the child and pushes no status report.
C2_GracefulExitsWhenStopped ==
    [][ (HandlerStep /\ ~ ChildActive)
        => /\ term' = "exit0"
           /\ log' = log \o << "SIGINT", "sys.exit(0)" >>
           /\ UNCHANGED << childVars, statusState, pc >> ]_vars

C2_Witness ==
    /\ term = "exit0"
    /\ handlerInstalled
    /\ status = "STOPPED"
    /\ pc = "health"
    /\ LogEndsWith(<< "SIGINT", "sys.exit(0)" >>)
    /\ ~ InLog("kill") /\ ~ InLog("shutdown") /\ ~ InLog("status_forced")

C5_SignalIsOneGracefulExit ==
    /\ [](handlerInstalled => gracefulCalls = sigCount)
    /\ [](~ handlerInstalled => gracefulCalls = 0)
    /\ [][ HandlerStep
           => /\ gracefulCalls' = gracefulCalls + 1
              /\ statusState' = statusState
              /\ pc' = pc
              /\ term' \in { "running", "exit0" }
              /\ \E e \in { "kill", "shutdown", "sys.exit(0)" } :
                    log' = log \o << "SIGINT", e >> ]_vars

C5_Witness ==
    /\ handlerInstalled
    /\ sigCount = 2
    /\ gracefulCalls = 2
    /\ Count("SIGINT") = 2
    /\ ~ InLog("status_forced")
    /\ term = "exit0"

\* C4: exit(graceful=False) performs, in this order, kill() whenever the
\* child handle exists, one 'forcibly closed' status update whenever the
\* status thread exists, and then ends the application with a non-zero exit
\* code; with neither handle set it calls neither and still ends non-zero.
C4_ForcedExitSequence ==
    (pc \in ExitPcs /\ term # "running")
    => /\ term = "exit1"
       /\ IF dedicatedserver /\ status_thread
          THEN LogEndsWith(<< "kill", "status_forced", "sys.exit(1)" >>)
          ELSE /\ LogEndsWith(<< "sys.exit(1)" >>)
               /\ ~ InLog("kill")
               /\ ~ InLog("status_forced")

\* C6 as claimed, for the compatibility-layer bootstrap: a SIGINT that
\* arrives while wineboot is being waited for does not interrupt that call,
\* so the application never ends while the call is in flight.
C6_InFlightCallNotInterrupted ==
    term # "running" => pc # "wine_wait"

\* C6: a SIGINT that arrives while a blocking subprocess call of the start
\* sequence is in flight (child status STOPPED) runs exit(graceful=True)
\* once, which ends the application at once with exit code 0: the call in
\* flight is abandoned, the start sequence goes no further, and neither
\* kill() nor shutdown() is called.
C6_SignalAbandonsInFlightCall ==
    /\ [](InFlight => status = "STOPPED")
    /\ [][ (HandlerStep /\ InFlight)
           => /\ gracefulCalls' = gracefulCalls + 1
              /\ term' = "exit0"
              /\ pc' = pc
              /\ log' = log \o << "SIGINT", "sys.exit(0)" >>
              /\ UNCHANGED childVars ]_vars

C6_Witness ==
    /\ pc = "wine_wait"
    /\ term = "exit0"
    /\ LogEndsWith(<< "wineboot", "SIGINT", "sys.exit(0)" >>)

\* field k of a version, a missing field counting as 0
Field(v, k) == IF k <= Len(v) THEN v[k] ELSE 0

\* dotted-version ordering: the first field in which two versions differ
\* decides, missing fields counting as 0
DottedGreater(a, b) ==
    \E k \in 1..(Len(a) + Len(b)) :
        /\ Field(a, k) > Field(b, k)
        /\ \A j \in 1..(k - 1) : Field(a, j) = Field(b, j)

\* C7: do_update is true when no installed version is recorded or the
\* executable is missing, and the remote endpoint is then not consulted;
\* otherwise it is true when the remote fetch or a version parse fails;
\* otherwise it is true exactly when the remote latest version is strictly
\* greater than the installed one under dotted-version ordering.
C7_UpdateDecision ==
    gateDone =>
        IF oldversion = NoVersion \/ ~ exeExists
        THEN do_update /\ ~ InLog("get_request")
        ELSE /\ InLog("get_request")
             /\ IF ~ fetched \/ ~ Parses(latestVersion) \/ ~ Parses(oldversion)
                THEN do_update
                ELSE do_update <=> DottedGreater(latestVersion, oldversion)

C7_Witness ==
    /\ gateDone
    /\ exeExists /\ fetched
    /\ oldversion = << 1 >>
    /\ latestVersion = << 1, 0 >>
    /\ ~ do_update

\* C8: check_server_update calls the install/update tool if and only if an
\* update is required and (AutoUpdateServer is enabled or the update was
\* forced by the `update` action); with no update required the tool is never
\* called, even when forced, and with an update required but neither policy
\* nor force the start sequence goes on without installing.
C8_ToolRunsIffRequiredAndAllowed ==
    /\ [](command \in { "start", "update" } =>
            (InLog("update_app") <=>
               gateDone /\ do_update
                        /\ (AutoUpdateServer \/ command = "update")))
    /\ [][ (pc = "check_update" /\ pc' # pc /\ command = "start"
              /\ ~ AutoUpdateServer)
           => pc' = "health" /\ ~ InLog("update_app")' ]_vars

C8_Witness ==
    /\ command = "start"
    /\ gateDone /\ do_update /\ ~ AutoUpdateServer
    /\ InLog("health_ok")
    /\ ~ InLog("update_app")

\* failures of the steps before the child launch: (a) update/install,
\* (b) health endpoint, (c) wine bootstrap, (d) ports, (f) input worker
FatalFailures ==
    { "update_raised", "health", "health_raised", "wine", "ports",
      "ports_raised", "input" }

\* C9 as claimed: after any failure of a step before the child launch,
\* a failed update/install included, the child process is never launched
\* and the run loop is never entered.
C9_AnyFailureBeforeLaunchIsFatal ==
    (failures \cap (FatalFailures \cup { "update_failed" }) # {})
    => ~ InLog("launch") /\ ~ InLog("server_loop")

\* C9: in start_server a failed health-endpoint check, wine bootstrap or
\* ports-free check, or an exception raised by the update/install tool, by one
\* of these checks or by the start of the input worker, ends the whole
\* application, and afterwards the child process is never launched and the
\* run loop is never entered; an update/install that the tool reports as
\* failed is only logged and the start sequence goes on.
C9_FailureBeforeLaunchIsFatal ==
    /\ []((failures \cap FatalFailures # {})
          => /\ ~ InLog("launch")
             /\ ~ InLog("server_loop")
             /\ (term # "running" \/ pc \in ExitPcs \cup { "main_except" }))
    /\ ((failures \cap FatalFailures # {}) ~> (term # "running"))
    /\ [][ (pc = "update_tool" /\ command = "start"
              /\ "update_failed" \in failures' \ failures)
           => pc' = "health" /\ term' = "running" ]_vars

C9_Witness ==
    /\ failures = { "update_failed", "ports" }
    /\ term = "exit1"
    /\ InLog("wine_ok")
    /\ ~ InLog("launch")

\* the calls of the start sequence, in the order start_server makes them
StartOrder ==
    << "version_gate", "update_app", "health_ok", "wineboot", "wine_ok",
       "ports_ok", "netcheck", "input_start", "launch", "launch_ok",
       "status_running", "reporter_start", "server_loop" >>

OptionalSteps == { "update_app", "netcheck", "reporter_start" }

\* C10: the steps of start_server happen strictly in the order version
\* gate/update, health-endpoint check, wine bootstrap, ports-free check,
\* optional network diagnostics, input worker start, child launch, 'running'
\* status update, optional status thread start, run loop: each step happens
\* at most once, only after every earlier mandatory step, and after every
\* earlier optional step that happened; the network diagnostics run exactly
\* when CheckNetwork is set and the status thread is started exactly when
\* SendStatus is set.
C10_StartOrder ==
    command = "start" =>
        /\ \A j \in 1..Len(StartOrder) :
              /\ Count(StartOrder[j]) <= 1
              /\ InLog(StartOrder[j]) =>
                    \A i \in 1..(j - 1) :
                       /\ StartOrder[i] \notin OptionalSteps
                             => InLog(StartOrder[i])
                       /\ InLog(StartOrder[i])
                             => Pos(StartOrder[i]) < Pos(StartOrder[j])
        /\ InLog("input_start") => (InLog("netcheck") <=> CheckNetwork)
        /\ InLog("server_loop") => (InLog("reporter_start") <=> SendStatus)
        /\ inputStarted <=> InLog("input_start")
        /\ reporterStarted <=> InLog("reporter_start")
        /\ reporterStarted => status = "RUNNING" \/ InLog("launch_ok")

C10_Witness ==
    /\ command = "start"
    /\ CheckNetwork /\ SendStatus
    /\ InLog("update_app")
    /\ pc = "loop"
    /\ term = "running"

\* the console lines that are commands for the server: neither a help
\* request nor a line the parser rejects
CommandLineNumbers ==
    { k \in 1..Len(inputLines) : inputLines[k] \notin { "help", "bogus" } }

\* every command put on the queue so far, delivered or not
Enqueued == delivered \o cmd_queue

\* C11: for every console line handled by on_input, a HELP command is never
\* put on cmd_queue, a line that fails to parse is never put on it and ends
\* neither the input thread nor the application, and every other parsed
\* command is put on it exactly once: what was put on the queue is the
\* non-HELP successfully parsed commands in arrival order.
C11_OnlyCommandsAreQueued ==
    /\ [](/\ \A i \in 1..Len(Enqueued) :
                /\ Enqueued[i].line \in CommandLineNumbers
                /\ Enqueued[i].cmd = "LIST"
          /\ \A k \in CommandLineNumbers :
                Cardinality({ i \in 1..Len(Enqueued) : Enqueued[i].line = k }) = 1
          /\ \A i, j \in 1..Len(Enqueued) :
                i < j => Enqueued[i].line < Enqueued[j].line)
    /\ [][ inputLines' # inputLines
           => /\ term' = "running"
              /\ inputStarted'
              /\ pc' = pc
              /\ Len(cmd_queue') =
                    Len(cmd_queue)
                    + (IF inputLines'[Len(inputLines')] \in { "help", "bogus" }
                       THEN 0 ELSE 1) ]_vars

C11_Witness ==
    /\ inputLines = << "help", "list" >>
    /\ cmd_queue = << [cmd |-> "LIST", line |-> 2] >>
    /\ term = "running"

\* C12: under every interleaving of puts by the input thread and gets by the
\* run loop, what the run loop has taken is a prefix of what was put: the
\* order is kept, no command is delivered twice and none is lost, commands
\* put before the run loop started draining included.
C12_QueueIsFifo ==
    /\ [](/\ Len(Enqueued) = Cardinality(CommandLineNumbers)
          /\ \A i \in 1..Len(Enqueued) :
                Cardinality({ k \in CommandLineNumbers : k < Enqueued[i].line })
                   = i - 1
          /\ (~ InLog("server_loop") => delivered = << >>)
          /\ queuedAtLoopEntry <= Len(Enqueued))
    /\ [][ delivered' # delivered
           => /\ pc = "loop"
              /\ delivered' = Append(delivered, Head(cmd_queue))
              /\ cmd_queue' = Tail(cmd_queue) ]_vars

C12_Witness ==
    /\ queuedAtLoopEntry = 2
    /\ Len(delivered) = 2
    /\ delivered[1].line = 1
    /\ delivered[2].line = 2
    /\ cmd_queue = << >>

Advisories == { "looks_good", "nat_loopback", "port_forwarding", "unreachable" }

\* the step of check_network_config that returns or goes to sleep
NetcheckStep ==
    /\ pc = "netcheck"
    /\ Len(log') > Len(log)
    /\ log'[Len(log) + 1] = "netcheck"

\* C13: check_network_config reports exactly one advisory for the game port:
\* (local, nonlocal) = (TRUE, TRUE) gives the 'looks good' info, (FALSE, TRUE)
\* the NAT-loopback warning, (TRUE, FALSE) the port-forwarding warning and
\* (FALSE, FALSE) the completely-unreachable warning; whichever it is, the
\* start sequence goes on: nothing is recorded as failed and the application
\* is not terminated by the step.
C13_OneAdvisoryPerNetwork ==
    /\ [] (InLog("netcheck") =>
             /\ \E a \in Advisories :
                   /\ Count(a) = 1
                   /\ \A b \in Advisories \ { a } : Count(b) = 0
             /\ (netLocal /\ netNonLocal) => InLog("looks_good")
             /\ (~ netLocal /\ netNonLocal) => InLog("nat_loopback")
             /\ (netLocal /\ ~ netNonLocal) => InLog("port_forwarding")
             /\ (~ netLocal /\ ~ netNonLocal) => InLog("unreachable"))
    /\ [][ NetcheckStep
            => /\ term' = "running"
               /\ failures' = failures
               /\ pc' \in { "net_pause", "input" } ]_vars

C13_Witness ==
    /\ ~ netLocal
    /\ netNonLocal
    /\ InLog("nat_loopback")
    /\ InLog("launch_ok")

\* C14: when check_network_config ran, the security alert was logged and the
\* launcher slept if and only if the console port answered the probe,
\* whatever the advisory for the game port was; the alert and the sleep
\* record no failure and do not terminate the application; and while the
\* launcher sleeps neither the input thread is started nor the child
\* launched: both happen only after the sleep is over.
C14_RconAlertAndPause ==
    /\ [] (InLog("netcheck") =>
             /\ InLog("security_alert") <=> rconExposed
             /\ InLog("rcon_good") <=> ~ rconExposed
             /\ (pc = "net_pause" \/ InLog("pause_end")) => rconExposed
             /\ (rconExposed /\ InLog("input_start"))
                   => /\ InLog("pause_end")
                      /\ Pos("security_alert") < Pos("pause_end")
                      /\ Pos("pause_end") < Pos("input_start")
             /\ (rconExposed /\ InLog("launch"))
                   => /\ InLog("pause_end")
                      /\ Pos("pause_end") < Pos("launch"))
    /\ [] (pc = "net_pause"
             => /\ ~ inputStarted
                /\ ~ InLog("input_start")
                /\ ~ InLog("launch")
                /\ ~ procAlive)
    /\ [][ (NetcheckStep /\ rconExposed)
            => /\ term' = "running"
               /\ failures' = failures
               /\ pc' = "net_pause" ]_vars
    /\ [][ (pc = "net_pause" /\ InLog("pause_end")' )
            => /\ term' = "running"
               /\ failures' = failures
               /\ pc' = "input" ]_vars

C14_Witness ==
    /\ netLocal
    /\ netNonLocal
    /\ rconExposed
    /\ InLog("looks_good")
    /\ InLog("pause_end")
    /\ InLog("launch_ok")

UpdateCalls == { UpdateCall(state) : state \in StatusValues }

\* the state given to the last call of update_status, "offline" (the state
\* the thread is constructed with) when there was none
LastGiven ==
    LET calls == { i \in 1..Len(log) : log[i] \in UpdateCalls }
    IN  IF calls = {} THEN "offline"
        ELSE LET last == CHOOSE i \in calls : \A j \in calls : j <= i
             IN  CHOOSE v \in StatusValues : UpdateCall(v) = log[last]

\* a step that is a call of update_status
UpdateStep ==
    /\ Len(log') = Len(log) + 1
    /\ log'[Len(log')] \in UpdateCalls

\* C15: the retained state is always the state given to the last call of
\* update_status; a call while the thread is stopped sends nothing; a call
\* while the thread is started sends exactly one report, of the state given;
\* any other report is sent only while the thread is started and is of the
\* state retained at that moment.
C15_ReporterPushes ==
    /\ [] (statusState = LastGiven)
    /\ [][ (UpdateStep /\ ~ reporterStarted) => pushes' = pushes ]_vars
    /\ [][ (UpdateStep /\ reporterStarted)
            => pushes' = Append(pushes, LastGiven') ]_vars
    /\ [][ (~ UpdateStep /\ pushes' # pushes)
            => /\ reporterStarted
               /\ statusState' = statusState
               /\ pushes' = Append(pushes, LastGiven) ]_vars

C15_Witness ==
    /\ log = << "status_running", "reporter_start", "status_forced" >>
    /\ pushes = << "forced", "forced" >>

\* the step of start_server that calls update_status(True, "Server is running")
RunningUpdateStep ==
    /\ pc = "status_running"
    /\ log' = Append(log, "status_running")

\* C16 as stated: once the launcher has reported the running state, a report
\* of it has been sent, whether or not SendStatus is set, before the status
\* thread is started and before the run loop is entered.
C16_RunningReportSentAtLaunch ==
    InLog("status_running") =>
        /\ Len(pushes) > 0
        /\ pushes[1] = "running"

\* C16: after the child was launched the launcher gives the running state
\* to the status thread, whether or not SendStatus is set, before it starts
\* the thread (if SendStatus is set) and before it enters the run loop; the
\* thread is not started at that moment, so the state is retained and no
\* report is sent by the call, and none is sent before the thread is started.
C16_RunningStateRetainedAtLaunch ==
    /\ [][ RunningUpdateStep
            => /\ InLog("launch_ok")
               /\ ~ reporterStarted
               /\ statusState' = "running"
               /\ pushes' = pushes
               /\ pc' = (IF SendStatus THEN "reporter" ELSE "loop_enter") ]_vars
    /\ [] ((InLog("reporter_start") \/ InLog("server_loop"))
             => /\ InLog("status_running")
                /\ InLog("reporter_start")
                      => Pos("status_running") < Pos("reporter_start")
                /\ InLog("server_loop")
                      => Pos("status_running") < Pos("server_loop"))
    /\ [] (~ InLog("reporter_start") => pushes = << >>)

C16_Witness ==
    /\ ~ SendStatus
    /\ InLog("server_loop")
    /\ statusState = "running"
    /\ pushes = << >>

\* the event types listed in the config file
Listed == { e \in EventType :
               \E i \in 1..Len(notifications.EventWhitelist) :
                  notifications.EventWhitelist[i] = e }

\* C17: for every call of notify with an event of type E and every
\* registered handler with whitelist W, the handler's handle(event) was
\* called if and only if E is in W (W is every event type for the logging
\* handler and the listed types for a remote handler); no handler that is
\* not registered is called.
C17_HandledIffWhitelisted ==
    \A i \in 1..Len(notified) :
       /\ notified[i].invoked \subseteq handlers
       /\ \A h \in handlers :
             h \in notified[i].invoked
                <=> notified[i].type \in (IF h = "Logging" THEN EventType ELSE Listed)

C17_Witness ==
    /\ handlers = { "Logging", "Discord" }
    /\ notifications.EventWhitelist = << "START", "START" >>
    /\ Len(notified) = 2
    /\ notified[1].type = "START"
    /\ notified[1].invoked = { "Logging", "Discord" }
    /\ notified[2].type = "SHUTDOWN"
    /\ notified[2].invoked = { "Logging" }

\* C18: in every call of notify, whichever handlers' deliveries fail, every
\* registered handler whose whitelist contains the event type is called all
\* the same, and the caller of notify gets no exception.
C18_FailuresAreIsolated ==
    \A i \in 1..Len(notified) :
       /\ \A h \in handlers :
             notified[i].type \in Whitelist(h) => h \in notified[i].invoked
       /\ ~ notified[i].raised

C18_Witness ==
    /\ Len(notified) > 0
    /\ notified[1].failing = { "Logging" }
    /\ notified[1].invoked = { "Logging", "Ntfy" }
    /\ ~ notified[1].raised

C20_ForcedExitEndsNonZero ==
    (pc = "exit_sleep" /\ handlerInstalled /\ InLog("kill") /\ term # "running")
       => term # "exit0"

\* C21: when an exception was raised during the start sequence, the
\* application ends with a non-zero exit code and with kill() called on the
\* child handle; stated for an exception raised by dedicatedserver.start(),
\* which goes through exit(graceful=False) and ends with sys.exit(1).
C21_ExceptionEndsKilledNonZero ==
    ("launch" \in failures /\ term # "running")
       => /\ term = "exit1"
          /\ InLog("kill")
          /\ ~ procAlive

\* C22: when dedicatedserver.start() returns False, start_server returns at
\* once: the step makes no call (no kill(), no status update) and ends the
\* script by its normal end, and in that run the running status was never
\* given to the status thread, the thread was never started, the run loop
\* was never entered, and there was no 'forcibly closed' update and no
\* sys.exit(1).
C22_LaunchFalseEndsQuietly ==
    /\ [][ (pc = "launching" /\ "launch_false" \in failures')
            => /\ term' = "end"
               /\ log' = log
               /\ UNCHANGED << reportVars, workerVars >> ]_vars
    /\ [] ("launch_false" \in failures
             => /\ term = "end"
                /\ ~ InLog("status_running")
                /\ ~ InLog("reporter_start")
                /\ ~ InLog("server_loop")
                /\ ~ InLog("status_forced")
                /\ ~ InLog("sys.exit(1)")
                /\ ~ reporterStarted
                /\ statusState = "offline"
                /\ pushes = << >>)

C22_Witness ==
    /\ "launch_false" \in failures
    /\ term = "end"
    /\ inputStarted
    /\ SendStatus
    /\ LogEndsWith(<< "input_start", "launch" >>)

WineEndings == { "wine_code0", "wine_nonzero", "wine_timeout", "wine_error" }

\* the step in which update_wine_prefix returns
WineReturnStep ==
    /\ pc = "wine_wait"
    /\ Len(log') > Len(log)
    /\ log'[Len(log) + 1] \in WineEndings

\* C23: update_wine_prefix returns True exactly when wineboot ended within
\* the timeout with exit code 0; after a timeout, a non-zero exit code or an
\* exception of Popen or wait it returns False, in no case does an exception
\* reach start_server; on False start_server calls exit(graceful=False), so
\* the ports are never checked and the child is never launched.
C23_WineBootstrapResult ==
    /\ [][ (WineReturnStep /\ log'[Len(log) + 1] = "wine_code0")
            => /\ log' = log \o << "wine_code0", "wine_ok" >>
               /\ pc' = "ports"
               /\ term' = "running"
               /\ failures' = failures ]_vars
    /\ [][ (WineReturnStep /\ log'[Len(log) + 1] # "wine_code0")
            => /\ Len(log') = Len(log) + 1
               /\ pc' = "exit_kill"
               /\ term' = "running"
               /\ failures' = failures \cup { "wine" } ]_vars
    /\ [] ("wine" \in failures
             => /\ ~ InLog("wine_ok")
                /\ ~ InLog("ports_ok")
                /\ ~ InLog("launch")
                /\ pc \in ExitPcs)
    /\ [] (InLog("wine_ok") <=> InLog("wine_code0"))

C23_Witness ==
    /\ "wine" \in failures
    /\ InLog("wine_timeout")
    /\ LogEndsWith(<< "kill", "status_forced", "sys.exit(1)" >>)
    /\ term = "exit1"

=============================================================================
